---- MODULE Spec2Model ----
(***************************************************************************)
(* A model of GLWidget (src/voronoi_visualizer.cpp): the bounding          *)
(* rectangle, the exterior classifier, the view port and the cached render *)
(* buffers, driven by build(), paintGL() and the two filter toggles.       *)
(*                                                                         *)
(* Numbers.  The program computes in double.  Every coordinate of the      *)
(* model is an integer count of tenths of an input unit, so that the       *)
(* centre of a rectangle of integer corners ((a+b)/2) and the 1.2 bloat    *)
(* are exact.                                                               *)
(***************************************************************************)
EXTENDS Integers, Sequences, FiniteSets, TLC

\* ---------------------------------------------------------------- bounds
\* Input files are the catalogue shapes translated by 0..MaxOffset units.
MaxOffset == 1
\* The library's order of the two halves of an edge pair in the edge
\* container is chosen by the bits of a number in 0..MaxOrder.
MaxOrder == 3

\* ------------------------------------------------------------- constants
EXTERNAL_COLOR == 1
NULL == 0
\* tenths per input unit (the model's fixed point)
Unit == 2 * 5

Max(a, b) == IF a >= b THEN a ELSE b
Min(a, b) == IF a <= b THEN a ELSE b
Abs(a) == IF a >= 0 THEN a ELSE 0 - a

RECURSIVE Pow2(_)
Pow2(n) == IF n = 0 THEN 1 ELSE 2 * Pow2(n - 1)
Bit(n, j) == (n \div Pow2(j)) % 2

\* ------------------------------------------------------------ input files
\* The text format read_data parses: a count of points and the points, a
\* count of segments and the segments (integers).  "missing" is a file that
\* QFile::open cannot open.
Shapes == {"missing", "empty", "single", "pair", "triangle", "ring", "rails", "polygon", "arc",
           "specks"}
Files == [shape : Shapes, off : 0..MaxOffset]

ShapePoints(s) ==
    CASE s = "single"   -> << <<0, 0>> >>
      [] s = "pair"     -> << <<0, 0>>, <<10, 0>> >>
      [] s = "triangle" -> << <<0, 0>>, <<4, 0>>, <<0, 4>> >>
      [] s = "ring"     -> << <<0, 0>>, <<4, 0>>, <<1, 3>>, <<1, 1>> >>
      [] s = "arc"      -> << <<2, 2>> >>
      [] s = "specks"   -> << <<0, 0>> >>
      [] OTHER          -> << >>

ShapeSegments(s) ==
    CASE s = "arc"     -> << << <<0, 0>>, <<4, 0>> >> >>
      [] s = "rails"   -> << << <<0, 0>>, <<4, 0>> >>,
                             << <<0, 4>>, <<4, 4>> >> >>
      [] s = "polygon" -> << << <<0, 0>>, <<4, 0>> >>,
                             << <<0, 0>>, <<0, 3>> >>,
                             << <<0, 3>>, <<4, 0>> >> >>
      \* the same segment of length zero six times
      [] s = "specks"  -> << << <<4, 0>>, <<4, 0>> >>, << <<4, 0>>, <<4, 0>> >>,
                             << <<4, 0>>, <<4, 0>> >>, << <<4, 0>>, <<4, 0>> >>,
                             << <<4, 0>>, <<4, 0>> >>, << <<4, 0>>, <<4, 0>> >> >>
      [] OTHER         -> << >>

Shift2(p, k) == <<p[1] + k, p[2] + k>>

FileOpens(f) == f.shape # "missing"
FilePoints(f) == [i \in 1..Len(ShapePoints(f.shape)) |->
                    Shift2(ShapePoints(f.shape)[i], f.off)]
FileSegments(f) == [i \in 1..Len(ShapeSegments(f.shape)) |->
                      << Shift2(ShapeSegments(f.shape)[i][1], f.off),
                         Shift2(ShapeSegments(f.shape)[i][2], f.off) >>]

\* point_type p(x1, y1): the int read becomes a double (here: tenths)
point_type(x, y) == [x |-> x * Unit, y |-> y * Unit]
segment_type(lp, hp) == [low |-> lp, high |-> hp]

\* ------------------------------------------------- the Voronoi diagram VD
\* voronoi_diagram<double>: cells, vertices and half-edges held in
\* containers and addressed by position (1..n); NULL is the absent vertex.
\*   cell   : source_index, source_category
\*   vertex : x, y, incident_edge, color
\*   edge   : cell, vertex0, twin, rot_next, is_primary, is_curved, color
EmptyVD == [cells |-> << >>, vertices |-> << >>, edges |-> << >>]

twin(d, e) == d.edges[e].twin
vertex0(d, e) == d.edges[e].vertex0
\* voronoi_edge::vertex1() is twin()->vertex0()
vertex1(d, e) == d.edges[twin(d, e)].vertex0
rot_next(d, e) == d.edges[e].rot_next
is_primary(d, e) == d.edges[e].is_primary
is_curved(d, e) == d.edges[e].is_curved
\* voronoi_edge::is_finite(): both end points are present
is_finite(d, e) == vertex0(d, e) # NULL /\ vertex1(d, e) # NULL
incident_edge(d, v) == d.vertices[v].incident_edge
contains_point(c) == c.source_category \in {"SINGLE_POINT", "SEGMENT_START_POINT", "SEGMENT_END_POINT"}
contains_segment(c) == c.source_category = "SEGMENT"

\* The diagrams construct_voronoi returns for the catalogue's site sets.
\* Cells: one per site, the end points of a segment being sites of their own.
ShapeCells(s) ==
    LET pt(i) == [source_index |-> i, source_category |-> "SINGLE_POINT"]
        st(i) == [source_index |-> i, source_category |-> "SEGMENT_START_POINT"]
        en(i) == [source_index |-> i, source_category |-> "SEGMENT_END_POINT"]
        sg(i) == [source_index |-> i, source_category |-> "SEGMENT"]
    IN CASE s = "single"   -> << pt(0) >>
         [] s = "pair"     -> << pt(0), pt(1) >>
         [] s = "triangle" -> << pt(0), pt(1), pt(2) >>
         [] s = "ring"     -> << pt(0), pt(1), pt(2), pt(3) >>
         \* end points (0,0), (4,0), (0,4), (4,4), then the two segments
         [] s = "rails"    -> << st(0), en(0), st(1), en(1), sg(0), sg(1) >>
         \* corners X (0,0), Y (4,0), Z (0,3), then the three segments
         [] s = "polygon"  -> << st(0), en(0), en(1), sg(0), sg(1), sg(2) >>
         \* the point P (2,2), then the ends A (0,0), B (4,0) and the segment
         \* (the sites of a segment are counted after the points)
         [] s = "arc"      -> << pt(0), st(1), en(1), sg(1) >>
         [] OTHER          -> << >>

\* Equal sites.  The builder holds one site event per point and three per
\* segment (its start point, its end point and the segment itself, all
\* carrying the segment's index), sorts the events with std::sort and keeps
\* the first of every run of equal ones (two events are equal when their
\* end points are).  The three events of a segment of length zero are equal,
\* and std::sort leaves equal elements in an unspecified order: the cell of
\* a run of equal events is the cell of any one of them.  For a segment of
\* length zero that may be the segment itself, a cell that contains_segment.
cell_type(index, category) == [source_index |-> index, source_category |-> category]

\* "specks", the point (0,0) and the segment (4,0)-(4,0) six times: the
\* cell of the point, and one cell for the run of the eighteen events of the
\* segments, which is given the index of any of the six (the sites of a
\* segment are counted after the points) and any of the three categories.
SpecksCells ==
    {<< cell_type(0, "SINGLE_POINT"), cell_type(index, category) >> :
        index \in 1..6,
        category \in {"SEGMENT_START_POINT", "SEGMENT_END_POINT", "SEGMENT"}}

\* the cells the library may give the sites of a shape
CellsOf(s) == IF s = "specks" THEN SpecksCells ELSE {ShapeCells(s)}

\* Vertices, in input units times two.
ShapeVertices(s) ==
    CASE s = "triangle" -> << <<4, 4>> >>
      [] s = "ring"     -> << <<4, -2>>, <<6, 4>>, <<-2, 4>> >>
      [] s = "rails"    -> << <<0, 4>>, <<8, 4>> >>
      \* the incentre I (1,1) and the corners X, Y, Z
      [] s = "polygon"  -> << <<2, 2>>, <<0, 0>>, <<8, 0>>, <<0, 6>> >>
      \* (0,2) and (4,2): as far from P as from the segment and from an end
      [] s = "arc"      -> << <<0, 4>>, <<8, 4>> >>
      [] OTHER          -> << >>

\* Edge pairs: the half from vertex a to vertex b lies in cell ca (the cell
\* on its left), its twin from b to a in cell cb.
Pair(a, b, ca, cb, prim, curv) ==
    [a |-> a, b |-> b, ca |-> ca, cb |-> cb, prim |-> prim, curv |-> curv]

ShapePairs(s) ==
    CASE s = "pair"     -> << Pair(NULL, NULL, 1, 2, TRUE, FALSE) >>
      [] s = "triangle" -> << Pair(1, NULL, 2, 1, TRUE, FALSE),
                              Pair(1, NULL, 1, 3, TRUE, FALSE),
                              Pair(1, NULL, 3, 2, TRUE, FALSE) >>
      \* the cell of the inner point (cell 4) is bounded by a cycle
      [] s = "ring"     -> << Pair(1, 2, 4, 2, TRUE, FALSE),
                              Pair(2, 3, 4, 3, TRUE, FALSE),
                              Pair(3, 1, 4, 1, TRUE, FALSE),
                              Pair(1, NULL, 2, 1, TRUE, FALSE),
                              Pair(2, NULL, 3, 2, TRUE, FALSE),
                              Pair(3, NULL, 1, 3, TRUE, FALSE) >>
      \* two parallel segments: the bisector between them, and at each of
      \* its ends two secondary edges and the bisector of two end points
      [] s = "rails"    -> << Pair(1, 2, 6, 5, TRUE, FALSE),
                              Pair(1, NULL, 3, 6, FALSE, FALSE),
                              Pair(1, NULL, 1, 3, TRUE, FALSE),
                              Pair(1, NULL, 5, 1, FALSE, FALSE),
                              Pair(2, NULL, 6, 4, FALSE, FALSE),
                              Pair(2, NULL, 4, 2, TRUE, FALSE),
                              Pair(2, NULL, 2, 5, FALSE, FALSE) >>
      \* a closed triangle of segments: the three inner bisectors meet the
      \* outside only through secondary edges at the corners
      [] s = "polygon"  -> << Pair(1, 2, 4, 5, TRUE, FALSE),
                              Pair(3, 1, 4, 6, TRUE, FALSE),
                              Pair(1, 4, 5, 6, TRUE, FALSE),
                              Pair(2, NULL, 4, 1, FALSE, FALSE),
                              Pair(NULL, 3, 4, 2, FALSE, FALSE),
                              Pair(NULL, 2, 5, 1, FALSE, FALSE),
                              Pair(4, NULL, 5, 3, FALSE, FALSE),
                              Pair(NULL, 4, 6, 3, FALSE, FALSE),
                              Pair(3, NULL, 6, 2, FALSE, FALSE) >>
      \* two sites (no event of the run at (4,0) is a segment with two
      \* different ends, so the edge is the primary bisector of two points)
      [] s = "specks"   -> << Pair(NULL, NULL, 1, 2, TRUE, FALSE) >>
      \* a point above a segment: the parabola between them (curved), and at
      \* each of its ends a secondary edge and the bisector of P and an end
      [] s = "arc"      -> << Pair(1, 2, 1, 4, TRUE, TRUE),
                              Pair(1, NULL, 4, 2, FALSE, FALSE),
                              Pair(1, NULL, 2, 1, TRUE, FALSE),
                              Pair(2, NULL, 3, 4, FALSE, FALSE),
                              Pair(2, NULL, 1, 3, TRUE, FALSE) >>
      [] OTHER          -> << >>

\* Pair k is stored twin-first when bit (k-1) mod 2 of the order is set.
Swapped(order, k) == Bit(order, (k - 1) % 2) = 1

\* The half-edge stored at position e, before its links are set.
HalfAt(pairs, order, e) ==
    LET k == (e + 1) \div 2
        p == pairs[k]
        fwd == (e % 2 = 1) # Swapped(order, k)
    IN [cell |-> IF fwd THEN p.ca ELSE p.cb,
        vertex0 |-> IF fwd THEN p.a ELSE p.b,
        vertex1 |-> IF fwd THEN p.b ELSE p.a,
        twin |-> IF e % 2 = 1 THEN e + 1 ELSE e - 1,
        is_primary |-> p.prim,
        is_curved |-> p.curv]

\* rot_next is prev->twin: prev is the half-edge of the same cell that ends
\* where e starts (around the absent vertex, the cell's edge that runs out
\* to infinity), so rot_next(e) leaves the start of e and its twin lies in
\* the cell of e.
RotNextOf(hs, e) ==
    LET prev == {j \in 1..Len(hs) : hs[j].cell = hs[e].cell /\ hs[j].vertex1 = hs[e].vertex0}
        least(S) == CHOOSE j \in S : \A i \in S : j <= i
    IN hs[least(prev)].twin

Voronoi(f, order, cells) ==
    LET s == f.shape
        pairs == ShapePairs(s)
        hs == [e \in 1..(2 * Len(pairs)) |-> HalfAt(pairs, order, e)]
        vs == ShapeVertices(s)
    IN [cells |-> cells,
        vertices |-> [v \in 1..Len(vs) |->
            [x |-> (vs[v][1] * Unit) \div 2 + f.off * Unit,
             y |-> (vs[v][2] * Unit) \div 2 + f.off * Unit,
             incident_edge |-> CHOOSE j \in 1..Len(hs) :
                                  /\ hs[j].vertex0 = v
                                  /\ \A i \in 1..(j - 1) : hs[i].vertex0 # v,
             color |-> 0]],
        edges |-> [e \in 1..Len(hs) |->
            [cell |-> hs[e].cell,
             vertex0 |-> hs[e].vertex0,
             twin |-> hs[e].twin,
             rot_next |-> RotNextOf(hs, e),
             is_primary |-> hs[e].is_primary,
             is_curved |-> hs[e].is_curved,
             color |-> 0]]]

\* construct_voronoi: the library's result for the sites read from f, in
\* one of the container orders it may use and with one of the cells it
\* may give equal sites.
Diagrams == [f \in Files |->
    {Voronoi(f, order, cells) : order \in 0..MaxOrder, cells \in CellsOf(f.shape)}]
construct_voronoi(f) == Diagrams[f]

\* ------------------------------------------------------- float quotients
\* A quotient n/d of the program, kept exact and in lowest terms, with the
\* values IEEE arithmetic adds to the numbers:
\*   <<n, d>>, n # 0, d > 0   the number n/d
\*   <<0, 1>>, <<0, -1>>      the zeros +0 and -0
\*   <<1, 0>>, <<-1, 0>>      +inf and -inf
\*   <<0, 0>>                 NaN
RECURSIVE Gcd(_, _)
Gcd(a, b) == IF b = 0 THEN a ELSE Gcd(b, a % b)
Sign(a) == IF a > 0 THEN 1 ELSE IF a < 0 THEN 0 - 1 ELSE 0
\* n / d of two integers (an integer zero is +0)
Rat(n, d) ==
    IF d = 0 THEN <<Sign(n), 0>>
    ELSE IF n = 0 THEN <<0, Sign(d)>>
    ELSE LET g == Gcd(Abs(n), Abs(d))
         IN <<(Sign(d) * n) \div g, Abs(d) \div g>>
Num(x) == Rat(x, 1)
RatIsNaN(p) == p[1] = 0 /\ p[2] = 0
RatIsZero(p) == p[1] = 0 /\ p[2] # 0
\* the sign bits a value may carry, as -1 and 1: -1 for the negative
\* numbers, -0 and -inf; the sign bit of a NaN depends on how it was made
RatSigns(p) ==
    IF RatIsNaN(p) THEN {0 - 1, 1}
    ELSE IF p[1] < 0 \/ (p[1] = 0 /\ p[2] < 0) THEN {0 - 1}
    ELSE {1}
\* -p
RatNeg(p) == IF p[1] = 0 THEN <<0, 0 - p[2]>> ELSE <<0 - p[1], p[2]>>
\* p + q: the sum of two infinities of opposite sign, or of anything and
\* NaN, is NaN; a sum that is zero is +0 unless both terms are -0
RatPlus(p, q) ==
    IF RatIsNaN(p) \/ RatIsNaN(q) THEN <<0, 0>>
    ELSE IF p[2] = 0 /\ q[2] = 0 THEN (IF p[1] = q[1] THEN p ELSE <<0, 0>>)
    ELSE IF p[2] = 0 THEN p
    ELSE IF q[2] = 0 THEN q
    ELSE IF p[1] = 0 /\ q[1] = 0 THEN <<0, IF p[2] < 0 /\ q[2] < 0 THEN 0 - 1 ELSE 1>>
    ELSE IF p[1] = 0 THEN q
    ELSE IF q[1] = 0 THEN p
    ELSE Rat(p[1] * q[2] + q[1] * p[2], p[2] * q[2])
RatSub(p, q) == RatPlus(p, RatNeg(q))
\* p * q: the sign is the product of the signs; zero times an infinity is
\* NaN.  A product of numbers is reduced crosswise before it is multiplied
\* out, so that the intermediate values stay small.
RatTimes(p, q) ==
    IF RatIsNaN(p) \/ RatIsNaN(q) THEN <<0, 0>>
    ELSE IF p[2] = 0 \/ q[2] = 0
      THEN (IF p[1] = 0 \/ q[1] = 0 THEN <<0, 0>>
            ELSE <<CHOOSE s \in {a * b : a \in RatSigns(p), b \in RatSigns(q)} : TRUE, 0>>)
    ELSE IF p[1] = 0 \/ q[1] = 0
      THEN <<0, CHOOSE s \in {a * b : a \in RatSigns(p), b \in RatSigns(q)} : TRUE>>
    ELSE LET g1 == Gcd(Abs(p[1]), q[2])
             g2 == Gcd(Abs(q[1]), p[2])
         IN Rat((p[1] \div g1) * (q[1] \div g2), (p[2] \div g2) * (q[2] \div g1))
\* 1 / q: an infinity of the sign of a zero, a zero of the sign of an infinity
RatInv(q) ==
    IF q[2] = 0 THEN <<0, q[1]>>
    ELSE IF q[1] = 0 THEN <<q[2], 0>>
    ELSE Rat(q[2], q[1])
\* p / q, in exact arithmetic p * (1 / q): a number over a zero is an
\* infinity of the product of the signs, 0/0 and inf/inf are NaN
RatOver(p, q) == RatTimes(p, RatInv(q))
RatSqr(p) == RatTimes(p, p)
\* p <= q; no comparison with NaN is true, and -0 and +0 are equal
RatLeq(p, q) ==
    IF RatIsNaN(p) \/ RatIsNaN(q) THEN FALSE
    ELSE IF p[2] = 0 /\ q[2] = 0 THEN p[1] <= q[1]
    ELSE p[1] * Abs(q[2]) <= q[1] * Abs(p[2])

\* ------------------------------------------------------------- the state
VARIABLES
    shift_,                 \* point_type
    point_data_,            \* std::vector<point_type>
    segment_data_,          \* std::vector<segment_type>
    brect_,                 \* rect_type
    vd_,                    \* VD
    brect_initialized_,
    primary_edges_only_,
    internal_edges_only_,
    projection_matrix_,     \* std::array<float, 16>
    gl_points_,             \* std::vector<VBO>
    gl_segments_,           \* VBO
    gl_vertices_,           \* std::vector<VBO>
    gl_edges_,              \* std::vector<VBO>
    pc,                     \* where build() stands: "idle" when it is not running,
                            \* "warning" at read_data's box, "color" in its loop
    it                      \* build()'s edge iterator (0 outside its loop)

vars == <<shift_, point_data_, segment_data_, brect_, vd_, brect_initialized_,
          primary_edges_only_, internal_edges_only_, projection_matrix_,
          gl_points_, gl_segments_, gl_vertices_, gl_edges_, pc, it>>

\* The widget's members as one value; the member functions below map a
\* widget to the widget they leave.
this ==
    [shift_ |-> shift_, point_data_ |-> point_data_, segment_data_ |-> segment_data_,
     brect_ |-> brect_, vd_ |-> vd_, brect_initialized_ |-> brect_initialized_,
     primary_edges_only_ |-> primary_edges_only_,
     internal_edges_only_ |-> internal_edges_only_,
     projection_matrix_ |-> projection_matrix_,
     gl_points_ |-> gl_points_, gl_segments_ |-> gl_segments_,
     gl_vertices_ |-> gl_vertices_, gl_edges_ |-> gl_edges_]

\* every member but the diagram is left as in w
BecomesButVd(w) ==
    /\ shift_' = w.shift_
    /\ point_data_' = w.point_data_
    /\ segment_data_' = w.segment_data_
    /\ brect_' = w.brect_
    /\ brect_initialized_' = w.brect_initialized_
    /\ primary_edges_only_' = w.primary_edges_only_
    /\ internal_edges_only_' = w.internal_edges_only_
    /\ projection_matrix_' = w.projection_matrix_
    /\ gl_points_' = w.gl_points_
    /\ gl_segments_' = w.gl_segments_
    /\ gl_vertices_' = w.gl_vertices_
    /\ gl_edges_' = w.gl_edges_

Becomes(w) == BecomesButVd(w) /\ vd_' = w.vd_

\* ------------------------------------------------------ bounding rectangle
\* rectangle_data: xl, yl, xh, yh
rect_type(xl, yl, xh, yh) == [xl |-> xl, yl |-> yl, xh |-> xh, yh |-> yh]
\* set_points(rect, p, q)
set_points(p, q) == rect_type(Min(p.x, q.x), Min(p.y, q.y), Max(p.x, q.x), Max(p.y, q.y))
\* encompass(rect, point)
encompass(r, p) == rect_type(Min(r.xl, p.x), Min(r.yl, p.y), Max(r.xh, p.x), Max(r.yh, p.y))
\* center(point, rect)
center(r) == [x |-> (r.xl + r.xh) \div 2, y |-> (r.yl + r.yh) \div 2]
\* bloat(rect, d)
bloat(r, d) == rect_type(r.xl - d, r.yl - d, r.xh + d, r.yh + d)
\* deconvolve(a, b): a - b, on a point and on a rectangle
deconvolve(a, b) == [x |-> a.x - b.x, y |-> a.y - b.y]
deconvolve_rect(r, b) == rect_type(r.xl - b.x, r.yl - b.y, r.xh - b.x, r.yh - b.y)

update_brect(w, point) ==
    IF w.brect_initialized_
      THEN [w EXCEPT !.brect_ = encompass(w.brect_, point)]
      ELSE [w EXCEPT !.brect_ = set_points(point, point), !.brect_initialized_ = TRUE]

\* side * 1.2 is side * 12 / 10
construct_brect(w) ==
    LET side == Max(w.brect_.xh - w.brect_.xl, w.brect_.yh - w.brect_.yl)
        sh == center(w.brect_)
    IN [w EXCEPT !.shift_ = sh,
                 !.brect_ = bloat(set_points(sh, sh), (side * 12) \div 10)]

\* ------------------------------------------------------------ GL buffers
\* VBO: id_, vertex_count_; data is what glBufferData stored under id_.
VBO(id, vertex_count, data) == [id_ |-> id, vertex_count_ |-> vertex_count, data |-> data]
GLPoint(x, y) == [x_ |-> x, y_ |-> y]

\* clear_vbo: glDeleteBuffers, id_ = 0 (vertex_count_ is left as it is)
clear_vbo(vbo) == [vbo EXCEPT !.id_ = 0, !.data = << >>]
\* clear_vbo_array: every buffer deleted, the vector emptied
clear_vbo_array(vbos) == << >>

\* glGenBuffers(1, &id): a buffer name not in use; the least one is taken
SeqIds(vbos) == {vbos[i].id_ : i \in 1..Len(vbos)}
NamesInUse(w) ==
    (SeqIds(w.gl_points_) \cup SeqIds(w.gl_vertices_) \cup SeqIds(w.gl_edges_)
        \cup {w.gl_segments_.id_}) \ {0}
glGenBuffers(w) ==
    CHOOSE n \in 1..(Cardinality(NamesInUse(w)) + 1) :
        /\ n \notin NamesInUse(w)
        /\ \A m \in 1..(n - 1) : m \in NamesInUse(w)

\* clear() forgetting the edge cache
clear_keep_edges(w) ==
    [w EXCEPT !.brect_initialized_ = FALSE,
              !.point_data_ = << >>,
              !.segment_data_ = << >>,
              !.vd_ = EmptyVD,
              !.gl_points_ = clear_vbo_array(w.gl_points_),
              !.gl_segments_ = clear_vbo(w.gl_segments_),
              !.gl_vertices_ = clear_vbo_array(w.gl_vertices_)]

\* clear() forgetting the diagram
clear_keep_diagram(w) ==
    [w EXCEPT !.brect_initialized_ = FALSE,
              !.point_data_ = << >>,
              !.segment_data_ = << >>,
              !.gl_points_ = clear_vbo_array(w.gl_points_),
              !.gl_segments_ = clear_vbo(w.gl_segments_),
              !.gl_vertices_ = clear_vbo_array(w.gl_vertices_),
              !.gl_edges_ = clear_vbo_array(w.gl_edges_)]

\* ------------------------------------------------------------- clear()
clear(w) ==
    [w EXCEPT !.brect_initialized_ = FALSE,
              !.point_data_ = << >>,
              !.segment_data_ = << >>,
              !.vd_ = EmptyVD,
              !.gl_points_ = clear_vbo_array(w.gl_points_),
              !.gl_segments_ = clear_vbo(w.gl_segments_),
              !.gl_vertices_ = clear_vbo_array(w.gl_vertices_),
              !.gl_edges_ = clear_vbo_array(w.gl_edges_)]

\* ----------------------------------------------------------- read_data()
\* A file that cannot be opened gets the warning box and is then read all
\* the same: the stream yields no number and both counts read as 0.
RECURSIVE read_points(_, _, _)
read_points(w, pts, i) ==
    IF i > Len(pts) THEN w
    ELSE LET p == point_type(pts[i][1], pts[i][2])
             w1 == update_brect(w, p)
         IN read_points([w1 EXCEPT !.point_data_ = Append(@, p)], pts, i + 1)

RECURSIVE read_segments(_, _, _)
read_segments(w, segs, i) ==
    IF i > Len(segs) THEN w
    ELSE LET lp == point_type(segs[i][1][1], segs[i][1][2])
             hp == point_type(segs[i][2][1], segs[i][2][2])
             w1 == update_brect(update_brect(w, lp), hp)
         IN read_segments([w1 EXCEPT !.segment_data_ = Append(@, segment_type(lp, hp))],
                          segs, i + 1)

read_data(w, f) ==
    LET pts == IF FileOpens(f) THEN FilePoints(f) ELSE << >>
        segs == IF FileOpens(f) THEN FileSegments(f) ELSE << >>
    IN read_segments(read_points(w, pts, 1), segs, 1)

\* ------------------------------------------------------ exterior classifier
RECURSIVE color_exterior(_, _)
RECURSIVE color_ring(_, _, _)

\* color_pair with the twin left out
color_pair_edge_only(d, edge) ==
    [d EXCEPT !.edges[edge].color = EXTERNAL_COLOR]

\* color_pair with the twin colored twice and the edge not at all
color_pair_twin_only(d, edge) ==
    [d EXCEPT !.edges[twin(d, edge)].color = EXTERNAL_COLOR]

\* edge->color(EXTERNAL_COLOR); edge->twin()->color(EXTERNAL_COLOR);
color_pair(d, edge) ==
    [d EXCEPT !.edges[edge].color = EXTERNAL_COLOR,
              !.edges[twin(d, edge)].color = EXTERNAL_COLOR]

\* the diagram after color_exterior(edge)
color_exterior(d, edge) ==
    IF d.edges[edge].color = EXTERNAL_COLOR THEN d
    ELSE LET d2 == color_pair(d, edge)
             v == vertex1(d2, edge)
         IN IF v = NULL \/ ~is_primary(d2, edge) THEN d2
            ELSE color_ring([d2 EXCEPT !.vertices[v].color = EXTERNAL_COLOR],
                            v, incident_edge(d2, v))

\* do { color_exterior(e); e = e->rot_next(); } while (e != v->incident_edge());
color_ring(d, v, e) ==
    LET d1 == color_exterior(d, e)
        n == rot_next(d1, e)
    IN IF n = incident_edge(d1, v) THEN d1 ELSE color_ring(d1, v, n)

\* one iteration of build()'s loop:
\*   if (!it->is_finite()) color_exterior(&(*it));
color_step(d, e) == IF ~is_finite(d, e) THEN color_exterior(d, e) ELSE d

\* ------------------------------------------------------------ view port
update_view_port(w) ==
    LET view_rect == deconvolve_rect(w.brect_, w.shift_)
        width == view_rect.xh - view_rect.xl
        height == view_rect.yh - view_rect.yl
    IN [w EXCEPT !.projection_matrix_ =
          [@ EXCEPT ![0] = Rat(2 * Unit, width),
                    ![5] = Rat(2 * Unit, height),
                    ![10] = Num(0 - 1),
                    ![15] = Num(1),
                    ![12] = RatNeg(Rat(view_rect.xl + view_rect.xh, width)),
                    ![13] = RatNeg(Rat(view_rect.yl + view_rect.yh, height)),
                    ![14] = Num(0)]]

\* --------------------------------------------------------- render caches
\* sizeHint(): the layout fixes the widget at this size
sizeHint == 600
\* radius of a site disk and of a vertex disk, in tenths of a pixel
point_radius == 45
vertex_radius == 30
boundary_point_count == 20

\* point_vbo: a fan around `point` with boundary_point_count + 1 rim points
\* at radius_px * width / size().width() and radius_px * height / size().height()
point_vbo(w, point, radius_px) ==
    LET width == w.brect_.xh - w.brect_.xl
        height == w.brect_.yh - w.brect_.yl
    IN VBO(glGenBuffers(w), boundary_point_count + 2,
           [center |-> GLPoint(Num(point.x), Num(point.y)),
            xRadius |-> Rat(radius_px * width, sizeHint * Unit),
            yRadius |-> Rat(radius_px * height, sizeHint * Unit)])

RECURSIVE push_points(_, _, _)
push_points(w, pts, i) ==
    IF i > Len(pts) THEN w
    ELSE push_points(
           [w EXCEPT !.gl_points_ =
              Append(@, point_vbo(w, deconvolve(pts[i], w.shift_), point_radius))],
           pts, i + 1)

\* low and high of every segment, in the order of segment_data_
SegmentEnds(segs) ==
    [i \in 1..(2 * Len(segs)) |->
        IF i % 2 = 1 THEN segs[(i + 1) \div 2].low ELSE segs[i \div 2].high]

prepare_points(w) ==
    IF w.gl_points_ # << >> THEN w
    ELSE push_points(push_points(w, w.point_data_, 1), SegmentEnds(w.segment_data_), 1)

prepare_segments(w) ==
    IF w.gl_segments_.id_ # 0 THEN w
    ELSE LET ends == SegmentEnds(w.segment_data_)
             segment_points ==
                [i \in 1..Len(ends) |->
                    GLPoint(Num(deconvolve(ends[i], w.shift_).x),
                            Num(deconvolve(ends[i], w.shift_).y))]
         IN [w EXCEPT !.gl_segments_ =
                VBO(glGenBuffers(w), Len(segment_points), segment_points)]

RECURSIVE push_vertices(_, _)
push_vertices(w, i) ==
    IF i > Len(w.vd_.vertices) THEN w
    ELSE IF w.internal_edges_only_ /\ w.vd_.vertices[i].color = EXTERNAL_COLOR
           THEN push_vertices(w, i + 1)
    ELSE LET vertex == deconvolve(
                 [x |-> w.vd_.vertices[i].x, y |-> w.vd_.vertices[i].y], w.shift_)
         IN push_vertices(
              [w EXCEPT !.gl_vertices_ = Append(@, point_vbo(w, vertex, vertex_radius))],
              i + 1)

prepare_vertices(w) ==
    IF w.gl_vertices_ # << >> THEN w ELSE push_vertices(w, 1)

\* retrieve_point, retrieve_segment: the site a cell stands for
retrieve_point(w, cell) ==
    LET index == cell.source_index
        seg == w.segment_data_[(index - Len(w.point_data_)) + 1]
    IN IF cell.source_category = "SINGLE_POINT" THEN w.point_data_[index + 1]
       ELSE IF cell.source_category = "SEGMENT_START_POINT" THEN seg.low
       ELSE seg.high

retrieve_segment(w, cell) ==
    w.segment_data_[(cell.source_index - Len(w.point_data_)) + 1]

\* clip_infinite_edge: the two points appended to clipped_edge.  A clipped
\* end is origin -/+ direction * (side / max(|dx|, |dy|)), kept as a quotient.
clip_infinite_edge(w, edge) ==
    LET d == w.vd_
        cell1 == d.cells[d.edges[edge].cell]
        cell2 == d.cells[d.edges[twin(d, edge)].cell]
        both == contains_point(cell1) /\ contains_point(cell2)
        p1 == retrieve_point(w, cell1)
        p2 == retrieve_point(w, cell2)
        org == IF contains_segment(cell1) THEN retrieve_point(w, cell2)
               ELSE retrieve_point(w, cell1)
        segment == IF contains_segment(cell1) THEN retrieve_segment(w, cell1)
                   ELSE retrieve_segment(w, cell2)
        dx == segment.high.x - segment.low.x
        dy == segment.high.y - segment.low.y
        origin == IF both THEN [x |-> (p1.x + p2.x) \div 2, y |-> (p1.y + p2.y) \div 2]
                  ELSE org
        direction ==
            IF both THEN [x |-> p1.y - p2.y, y |-> p2.x - p1.x]
            ELSE IF (segment.low = org) # contains_point(cell1)
                   THEN [x |-> dy, y |-> 0 - dx]
                   ELSE [x |-> 0 - dy, y |-> dx]
        side == w.brect_.xh - w.brect_.xl
        m == Max(Abs(direction.x), Abs(direction.y))
        v0 == vertex0(d, edge)
        v1 == vertex1(d, edge)
        first == IF v0 = NULL
                   THEN [x |-> Rat(origin.x * m - direction.x * side, m),
                         y |-> Rat(origin.y * m - direction.y * side, m)]
                   ELSE [x |-> Num(d.vertices[v0].x), y |-> Num(d.vertices[v0].y)]
        second == IF v1 = NULL
                    THEN [x |-> Rat(origin.x * m + direction.x * side, m),
                          y |-> Rat(origin.y * m + direction.y * side, m)]
                    ELSE [x |-> Num(d.vertices[v1].x), y |-> Num(d.vertices[v1].y)]
    IN << first, second >>

\* the samples a finite edge starts with: vertex0, vertex1
finite_edge_samples(w, edge) ==
    LET d == w.vd_
        v0 == d.vertices[vertex0(d, edge)]
        v1 == d.vertices[vertex1(d, edge)]
    IN << [x |-> Num(v0.x), y |-> Num(v0.y)], [x |-> Num(v1.x), y |-> Num(v1.y)] >>

\* voronoi_visual_utils (voronoi_visual_utils.hpp): the parabola with focus
\* `point` and directrix `segment`, in the frame where the low end of the
\* segment is the origin and the segment lies along the x axis (lengths are
\* scaled by the length of the segment):
\* f(x) = ((x - rot_x)^2 + rot_y^2) / (2 * rot_y)
parabola_y(x, a, b) ==
    RatOver(RatPlus(RatSqr(RatSub(x, a)), RatSqr(b)), RatPlus(b, b))

\* the square of the length of the segment
sqr_segment_length(segment) ==
    (segment.high.x - segment.low.x) * (segment.high.x - segment.low.x)
      + (segment.high.y - segment.low.y) * (segment.high.y - segment.low.y)

\* the foot of `point` on the line of the segment, as a fraction of its length
get_point_projection(point, segment) ==
    LET segment_vec_x == segment.high.x - segment.low.x
        segment_vec_y == segment.high.y - segment.low.y
    IN RatOver(RatPlus(RatTimes(Num(segment_vec_x), RatSub(point.x, Num(segment.low.x))),
                       RatTimes(Num(segment_vec_y), RatSub(point.y, Num(segment.low.y)))),
               Num(sqr_segment_length(segment)))

\* the abscissa of the point of the parabola that is furthest from the chord
\* from (cur_x, cur_y) to (new_x, new_y)
furthest_x(par, cur_x, cur_y, new_x, new_y) ==
    RatPlus(RatTimes(RatOver(RatSub(new_y, cur_y), RatSub(new_x, cur_x)), par.rot_y),
            par.rot_x)

\* dist * dist / sqr, divided before it is multiplied
sqr_over(dist, sqr) == RatTimes(dist, RatOver(dist, sqr))

\* the square of the greatest distance between the arc and that chord
chord_dist(cur_x, cur_y, new_x, new_y, mid_x, mid_y) ==
    sqr_over(RatSub(RatTimes(RatSub(new_y, cur_y), RatSub(mid_x, cur_x)),
                    RatTimes(RatSub(new_x, cur_x), RatSub(mid_y, cur_y))),
             RatPlus(RatSqr(RatSub(new_y, cur_y)), RatSqr(RatSub(new_x, cur_x))))

\* the point (new_x, new_y) of the frame of the segment, in the plane
inter_point(segment, par, new_x, new_y) ==
    [x |-> RatPlus(RatOver(RatSub(RatTimes(par.segm_vec_x, new_x),
                                  RatTimes(par.segm_vec_y, new_y)),
                           par.sqr_segment_length),
                   Num(segment.low.x)),
     y |-> RatPlus(RatOver(RatPlus(RatTimes(par.segm_vec_x, new_y),
                                   RatTimes(par.segm_vec_y, new_x)),
                           par.sqr_segment_length),
                   Num(segment.low.y))]

\* one pass of the loop of discretize, new_x being the top of the stack:
\* when the arc from the current point to the top is within the tolerance of
\* its chord, the top is popped, its point put out and made the current
\* one; otherwise mid_x is pushed.
discretize_pass(segment, par, s, new_x, new_y, mid_x) ==
    IF RatLeq(chord_dist(s.cur_x, s.cur_y, new_x, new_y,
                         mid_x, parabola_y(mid_x, par.rot_x, par.rot_y)),
              par.max_dist_transformed)
      THEN [cur_x |-> new_x, cur_y |-> new_y,
            point_stack |-> Tail(s.point_stack),
            discretization |->
                Append(s.discretization, inter_point(segment, par, new_x, new_y))]
      ELSE [s EXCEPT !.point_stack = <<mid_x>> \o @]

\* the top of the stack and the parabola above it
discretize_top(segment, par, s, new_x, new_y) ==
    discretize_pass(segment, par, s, new_x, new_y,
                    furthest_x(par, s.cur_x, s.cur_y, new_x, new_y))

\* the loop of discretize over its variables s: cur_x, cur_y, point_stack
\* and the points put out
RECURSIVE discretize_loop(_, _, _)
discretize_loop(segment, par, s) ==
    IF s.point_stack = << >> THEN s.discretization
    ELSE discretize_loop(segment, par,
            discretize_top(segment, par, s, Head(s.point_stack),
                           parabola_y(Head(s.point_stack), par.rot_x, par.rot_y)))

\* the parameters of the parabola in the frame of the segment
parabola_frame(point, segment, max_dist) ==
    LET segm_vec_x == segment.high.x - segment.low.x
        segm_vec_y == segment.high.y - segment.low.y
        point_vec_x == point.x - segment.low.x
        point_vec_y == point.y - segment.low.y
    IN [segm_vec_x |-> Num(segm_vec_x), segm_vec_y |-> Num(segm_vec_y),
        sqr_segment_length |-> Num(sqr_segment_length(segment)),
        rot_x |-> Num(segm_vec_x * point_vec_x + segm_vec_y * point_vec_y),
        rot_y |-> Num(segm_vec_x * point_vec_y - segm_vec_y * point_vec_x),
        max_dist_transformed |-> RatTimes(RatSqr(max_dist), Num(sqr_segment_length(segment)))]

\* discretize from its loop on
discretize_from(segment, par, projection_start, projection_end, first_point) ==
    discretize_loop(segment, par,
        [cur_x |-> projection_start,
         cur_y |-> parabola_y(projection_start, par.rot_x, par.rot_y),
         point_stack |-> <<projection_end>>,
         discretization |-> << first_point >>])

\* the last point as it was given
last_put_back(sampled, last_point) == [sampled EXCEPT ![Len(sampled)] = last_point]

\* discretize: `discretization` holds the two ends of the arc; the points of
\* the parabola between them are put in, and the last point is put back as
\* it was given.
discretize(point, segment, max_dist, discretization) ==
    last_put_back(
        discretize_from(segment, parabola_frame(point, segment, max_dist),
            RatTimes(Num(sqr_segment_length(segment)),
                     get_point_projection(discretization[1], segment)),
            RatTimes(Num(sqr_segment_length(segment)),
                     get_point_projection(discretization[2], segment)),
            discretization[1]),
        discretization[2])

\* sample_curved_edge: the point site and the segment site of the edge's two
\* cells, max_dist = 1E-3 * (xh(brect_) - xl(brect_))
sample_curved_edge(w, edge, sampled_edge) ==
    LET d == w.vd_
        cell == d.cells[d.edges[edge].cell]
        twin_cell == d.cells[d.edges[twin(d, edge)].cell]
        max_dist == Rat(w.brect_.xh - w.brect_.xl, 1000)
        point == IF contains_point(cell) THEN retrieve_point(w, cell)
                 ELSE retrieve_point(w, twin_cell)
        segment == IF contains_point(cell) THEN retrieve_segment(w, twin_cell)
                   ELSE retrieve_segment(w, cell)
    IN discretize(point, segment, max_dist, sampled_edge)

\* deconvolve(sample, shift_) on a sample whose coordinates are quotients
\* (an infinite or NaN coordinate stays what it is)
RatMinus(q, k) == RatSub(q, Num(k))
\* deconvolve_sample with the subtraction lost: the sample as it was
deconvolve_sample_dropped(sample, b) == sample

deconvolve_sample(sample, b) ==
    [x |-> RatMinus(sample.x, b.x), y |-> RatMinus(sample.y, b.y)]

\* the shifted samples, as the buffer holds them.  deconvolve subtracts in
\* place (as on view_rect in update_view_port), so the sample the buffer is
\* filled from is the shifted one.
gl_samples_of(samples, shift) ==
    [i \in 1..Len(samples) |->
        LET sample == deconvolve_sample(samples[i], shift)
        IN GLPoint(sample.x, sample.y)]

samples_vbo(w, gl_samples) == VBO(glGenBuffers(w), Len(gl_samples), gl_samples)

\* the buffer prepare_edges makes for one edge: the clipped pair of an
\* infinite edge, vertex0 and vertex1 of a finite one, with the samples of
\* the parabola between them when the edge is curved
edge_vbo(w, edge) ==
    samples_vbo(w,
        gl_samples_of(
            IF ~is_finite(w.vd_, edge) THEN clip_infinite_edge(w, edge)
            ELSE IF is_curved(w.vd_, edge)
                   THEN sample_curved_edge(w, edge, finite_edge_samples(w, edge))
            ELSE finite_edge_samples(w, edge),
            w.shift_))

\* push_edges with the internal-only test made only when primary-only is off
RECURSIVE push_edges_chained(_, _)
push_edges_chained(w, i) ==
    IF i > Len(w.vd_.edges) THEN w
    ELSE IF w.primary_edges_only_ /\ ~is_primary(w.vd_, i) THEN push_edges_chained(w, i + 1)
    ELSE IF ~w.primary_edges_only_ /\ w.internal_edges_only_
            /\ w.vd_.edges[i].color = EXTERNAL_COLOR
           THEN push_edges_chained(w, i + 1)
    ELSE push_edges_chained([w EXCEPT !.gl_edges_ = Append(@, edge_vbo(w, i))], i + 1)

RECURSIVE push_edges(_, _)
push_edges(w, i) ==
    IF i > Len(w.vd_.edges) THEN w
    ELSE IF w.primary_edges_only_ /\ ~is_primary(w.vd_, i) THEN push_edges(w, i + 1)
    ELSE IF w.internal_edges_only_ /\ w.vd_.edges[i].color = EXTERNAL_COLOR
           THEN push_edges(w, i + 1)
    ELSE push_edges([w EXCEPT !.gl_edges_ = Append(@, edge_vbo(w, i))], i + 1)

\* prepare_edges without its early return
prepare_edges_every_draw(w) == push_edges(w, 1)

prepare_edges(w) ==
    IF w.gl_edges_ # << >> THEN w ELSE push_edges(w, 1)

\* draw_*: prepare the cache, then submit it (drawing changes no member)
draw_points(w) == prepare_points(w)
draw_segments(w) == prepare_segments(w)
draw_vertices(w) == prepare_vertices(w)
draw_edges(w) == prepare_edges(w)

\* -------------------------------------------------------------- actions
\* build() runs on the GUI thread.  When the file cannot be opened,
\* read_data shows QMessageBox::warning, whose event loop runs inside
\* build(): the box is modal, so no slot of the window runs, but the timer
\* of the widget does, and paintGL with it (pc = "warning").  Nowhere else
\* does build() return to the event loop: while pc = "color" no handler runs.
\* The classification loop is taken one iteration at a time, so that the
\* states between two color_exterior calls are states of the model.

\* build() from the reading of the file on: the rest of read_data(), the
\* empty guard, construct_brect(), construct_voronoi()
build_read(w0, f) ==
    LET w == read_data(w0, f) IN
      IF ~w.brect_initialized_
        THEN /\ pc' = "idle"
             /\ it' = 0
             /\ Becomes(w)
        ELSE /\ pc' = "color"
             /\ it' = 1
             /\ BecomesButVd(construct_brect(w))
             /\ vd_' \in construct_voronoi(f)

\* clear(); read_data() up to the open; and on, unless the warning box opens
build_begin(f) ==
    /\ pc = "idle"
    /\ IF FileOpens(f)
         THEN build_read(clear(this), f)
         ELSE /\ pc' = "warning"
              /\ it' = 0
              /\ Becomes(clear(this))

\* the warning box is closed: read_data() goes on with the unopened file
build_warned ==
    /\ pc = "warning"
    /\ \E f \in Files : ~FileOpens(f) /\ build_read(this, f)

build == \E f \in Files : build_begin(f)

\* build()'s loop with the test of is_finite() inverted
build_color_finite ==
    /\ pc = "color"
    /\ it <= Len(vd_.edges)
    /\ Becomes([this EXCEPT !.vd_ =
                  IF is_finite(vd_, it) THEN color_exterior(vd_, it) ELSE vd_])
    /\ it' = it + 1
    /\ UNCHANGED pc

build_color ==
    /\ pc = "color"
    /\ it <= Len(vd_.edges)
    /\ Becomes([this EXCEPT !.vd_ = color_step(vd_, it)])
    /\ it' = it + 1
    /\ UNCHANGED pc

\* the loop is over: update_view_port(), and build() returns
build_end ==
    /\ pc = "color"
    /\ it > Len(vd_.edges)
    /\ Becomes(update_view_port(this))
    /\ pc' = "idle"
    /\ it' = 0

show_primary_edges_only ==
    /\ pc = "idle"
    /\ Becomes([this EXCEPT !.primary_edges_only_ = ~primary_edges_only_])
    /\ UNCHANGED <<pc, it>>

\* the toggle also dropping the edge and vertex caches
show_internal_edges_only_invalidating ==
    /\ pc = "idle"
    /\ Becomes([this EXCEPT !.internal_edges_only_ = ~internal_edges_only_,
                            !.gl_vertices_ = << >>,
                            !.gl_edges_ = << >>])
    /\ UNCHANGED <<pc, it>>

show_internal_edges_only ==
    /\ pc = "idle"
    /\ Becomes([this EXCEPT !.internal_edges_only_ = ~internal_edges_only_])
    /\ UNCHANGED <<pc, it>>

\* paintGL (every 40 ms, from timerEvent; also while the warning box is open)
paintGL ==
    /\ pc \in {"idle", "warning"}
    /\ Becomes(draw_edges(draw_vertices(draw_segments(draw_points(this)))))
    /\ UNCHANGED <<pc, it>>

\* The widget as constructed: the containers empty, the points and the
\* rectangle zero, the matrix zero, gl_segments_ {0, 0}; brect_initialized_
\* has no initializer and holds either value.
Init ==
    /\ shift_ = [x |-> 0, y |-> 0]
    /\ point_data_ = << >>
    /\ segment_data_ = << >>
    /\ brect_ = rect_type(0, 0, 0, 0)
    /\ vd_ = EmptyVD
    /\ brect_initialized_ \in BOOLEAN
    /\ primary_edges_only_ = FALSE
    /\ internal_edges_only_ = FALSE
    /\ projection_matrix_ = [i \in 0..15 |-> Num(0)]
    /\ gl_points_ = << >>
    /\ gl_segments_ = VBO(0, 0, << >>)
    /\ gl_vertices_ = << >>
    /\ gl_edges_ = << >>
    /\ pc = "idle"
    /\ it = 0

Next ==
    \/ build
    \/ build_warned
    \/ build_color
    \/ build_end
    \/ show_primary_edges_only
    \/ show_internal_edges_only
    \/ paintGL

Spec == Init /\ [][Next]_vars

\* =================================================================
\* Properties
\* =================================================================

\* build()'s classification loop has run over the whole edge container
Classified == pc = "idle" \/ (pc = "color" /\ it > Len(vd_.edges))

ColoredEdges(d) == {e \in 1..Len(d.edges) : d.edges[e].color = EXTERNAL_COLOR}
ColoredVertices(d) == {v \in 1..Len(d.vertices) : d.vertices[v].color = EXTERNAL_COLOR}
WithTwins(d, E) == E \cup {twin(d, e) : e \in E}

\* the half-edges met from v->incident_edge() by rot_next
RECURSIVE RingFrom(_, _, _)
RingFrom(d, e, seen) ==
    IF e \in seen THEN seen ELSE RingFrom(d, rot_next(d, e), seen \cup {e})
Ring(d, v) == RingFrom(d, incident_edge(d, v), {})

\* The closure of C1: the least sets E of half-edges and V of vertices with
\* every unbounded half-edge and its twin in E and, for every primary e in E
\* with vertex1 present, vertex1(e) in V and its ring, with twins, in E.
RECURSIVE ExteriorClosure(_, _, _)
ExteriorClosure(d, E, V) ==
    LET V2 == V \cup {vertex1(d, e) : e \in {x \in E : is_primary(d, x) /\ vertex1(d, x) # NULL}}
        E2 == WithTwins(d, E \cup UNION {Ring(d, v) : v \in V2})
    IN IF E2 = E /\ V2 = V THEN [E |-> E, V |-> V] ELSE ExteriorClosure(d, E2, V2)

Exterior(d) ==
    ExteriorClosure(d, WithTwins(d, {e \in 1..Len(d.edges) : ~is_finite(d, e)}), {})

\* C1: once the classification loop has run, the items colored EXTERNAL are
\* exactly the closure (unbounded half-edges and twins; from a primary
\* half-edge of the set with vertex1 present, that vertex and its ring with
\* twins), whatever the order of the edge container; all else keeps color 0.
C1_ExteriorIsClosure ==
    Classified =>
        /\ ColoredEdges(vd_) = Exterior(vd_).E
        /\ ColoredVertices(vd_) = Exterior(vd_).V

\* C2: in every state, between two color_exterior calls as well as after
\* the loop, each half-edge has the color of its twin.
C2_TwinSymmetry ==
    \A e \in 1..Len(vd_.edges) : vd_.edges[e].color = vd_.edges[twin(vd_, e)].color

\* a state between two color_exterior calls: a half-edge is colored whose
\* twin the loop has not come to yet, and other edges are still uncolored
C2_Witness ==
    /\ pc = "color"
    /\ 1 < it /\ it <= Len(vd_.edges)
    /\ \E e \in ColoredEdges(vd_) : e < it /\ twin(vd_, e) >= it
    /\ \E e \in 1..Len(vd_.edges) : vd_.edges[e].color = 0

\* the whole classification pass of build(): the loop over the edge container
RECURSIVE classify_from(_, _)
classify_from(d, i) ==
    IF i > Len(d.edges) THEN d ELSE classify_from(color_step(d, i), i + 1)

\* C3: a second classification pass over a classified diagram changes no
\* edge color and no vertex color.
C3_SecondPassChangesNothing ==
    Classified => classify_from(vd_, 1) = vd_

\* a classified diagram with colored and uncolored edges and a colored vertex
C3_Witness ==
    /\ Classified
    /\ ColoredVertices(vd_) # {}
    /\ ColoredEdges(vd_) # {}
    /\ \E e \in 1..Len(vd_.edges) : is_finite(vd_, e) /\ vd_.edges[e].color = EXTERNAL_COLOR

\* what a cache holds, buffer names aside
Contents(vbos) ==
    [i \in 1..Len(vbos) |-> [vertex_count_ |-> vbos[i].vertex_count_, data |-> vbos[i].data]]

\* the widget with empty caches and the filters set to p (primary-only) and
\* i (internal-only)
Uncached(w, p, i) ==
    [w EXCEPT !.gl_points_ = << >>,
              !.gl_segments_ = VBO(0, 0, << >>),
              !.gl_vertices_ = << >>,
              !.gl_edges_ = << >>,
              !.primary_edges_only_ = p,
              !.internal_edges_only_ = i]

\* C4: once build() has returned, every cached buffer is one computed from
\* the sites, the bounding rectangle, the shift and the diagram that build
\* left (under some setting of the filters); none of an earlier build remains.
C4_CachesAreOfLastBuild ==
    pc = "idle" =>
        /\ gl_points_ # << >> =>
             Contents(gl_points_)
               = Contents(prepare_points(Uncached(this, FALSE, FALSE)).gl_points_)
        /\ gl_segments_.id_ # 0 =>
             /\ gl_segments_.data
                  = prepare_segments(Uncached(this, FALSE, FALSE)).gl_segments_.data
             /\ gl_segments_.vertex_count_ = 2 * Len(segment_data_)
        /\ gl_vertices_ # << >> =>
             \E i \in BOOLEAN :
                Contents(gl_vertices_)
                  = Contents(prepare_vertices(Uncached(this, FALSE, i)).gl_vertices_)
        /\ gl_edges_ # << >> =>
             \E p \in BOOLEAN, i \in BOOLEAN :
                Contents(gl_edges_)
                  = Contents(prepare_edges(Uncached(this, p, i)).gl_edges_)

\* all four caches filled after a build of segment sites
C4_Witness ==
    /\ pc = "idle"
    /\ gl_points_ # << >>
    /\ gl_segments_.id_ # 0 /\ gl_segments_.vertex_count_ > 0
    /\ gl_vertices_ # << >>
    /\ gl_edges_ # << >>

\* everything the widget renders from
RenderState ==
    <<shift_, point_data_, segment_data_, brect_, vd_, brect_initialized_,
      projection_matrix_, gl_points_, gl_segments_, gl_vertices_, gl_edges_>>

\* C5: a build() of a file that cannot be opened leaves the render state of
\* the last successful build untouched.
C5_FailedBuildKeepsState ==
    [][(/\ point_data_ # << >> \/ segment_data_ # << >>
        /\ \E f \in Files : ~FileOpens(f) /\ build_begin(f))
          => UNCHANGED RenderState]_vars

\* the input yields no site
NoSites(f) == ~FileOpens(f) \/ (Len(FilePoints(f)) = 0 /\ Len(FileSegments(f)) = 0)

\* C6: a build() whose input yields no site (an empty file, or a file that
\* cannot be opened, whose warning box lets paintGL run inside build())
\* returns without finalizing the bounding rectangle, constructing the
\* diagram, classifying or recomputing the view port, and every state from
\* its clear() to its return is the cleared one: no sites, an empty diagram,
\* brect_initialized_ false, empty point, vertex and edge caches.
C6_EmptyInputLeavesCleared ==
    [][(\/ pc = "warning"
        \/ \E f \in Files : NoSites(f) /\ build_begin(f)) =>
          /\ pc' # "color"
          /\ point_data_' = << >>
          /\ segment_data_' = << >>
          /\ vd_' = EmptyVD
          /\ brect_initialized_' = FALSE
          /\ gl_points_' = << >>
          /\ gl_vertices_' = << >>
          /\ gl_edges_' = << >>
          /\ UNCHANGED <<brect_, shift_, projection_matrix_>>]_vars

\* an empty build after a build of sites: cleared, with the rectangle and
\* the matrix that earlier build left
C6_Witness ==
    /\ pc = "idle"
    /\ ~brect_initialized_
    /\ point_data_ = << >> /\ segment_data_ = << >>
    /\ vd_ = EmptyVD
    /\ brect_ # rect_type(0, 0, 0, 0)
    /\ projection_matrix_[15] = Num(1)

\* every cache that holds buffers is left as it is
CachesKept ==
    /\ gl_points_ # << >> => gl_points_' = gl_points_
    /\ gl_segments_.id_ # 0 => gl_segments_' = gl_segments_
    /\ gl_vertices_ # << >> => gl_vertices_' = gl_vertices_
    /\ gl_edges_ # << >> => gl_edges_' = gl_edges_

\* C7: a cache that holds buffers is changed by no draw and no toggle; the
\* only step that changes it is the start of a build(), whose clear empties
\* all four caches.
C7_CachesKeptUntilBuild ==
    [][\/ CachesKept
       \/ /\ gl_points_' = << >>
          /\ gl_segments_'.id_ = 0
          /\ gl_vertices_' = << >>
          /\ gl_edges_' = << >>
          /\ build]_vars

\* internal-only is on and the caches still hold the buffers of EXTERNAL
\* edges and vertices: they were filled before the toggle and kept
C7_Witness ==
    /\ pc = "idle"
    /\ internal_edges_only_
    /\ ColoredEdges(vd_) # {} /\ ColoredVertices(vd_) # {}
    /\ Len(gl_edges_) = Len(vd_.edges)
    /\ Len(gl_vertices_) = Len(vd_.vertices)
    /\ gl_points_ # << >>
    /\ gl_segments_.id_ # 0

\* at least one draw since the last build (prepare_segments always leaves a
\* buffer name)
Drawn == pc = "idle" /\ gl_segments_.id_ # 0

\* the half-edges and vertices that pass the filters of widget w
PassingEdges(w) ==
    {e \in 1..Len(w.vd_.edges) :
        /\ ~(w.primary_edges_only_ /\ ~is_primary(w.vd_, e))
        /\ ~(w.internal_edges_only_ /\ w.vd_.edges[e].color = EXTERNAL_COLOR)}
PassingVertices(w) ==
    {v \in 1..Len(w.vd_.vertices) :
        ~(w.internal_edges_only_ /\ w.vd_.vertices[v].color = EXTERNAL_COLOR)}

\* the k-th least element of a set of numbers
RECURSIVE Kth(_, _)
Kth(S, k) ==
    LET m == CHOOSE x \in S : \A y \in S : x <= y
    IN IF k = 1 THEN m ELSE Kth(S \ {m}, k - 1)

\* C8 as claimed: after a build and a draw, no toggle and no further draw
\* changes the edge or the vertex buffers, until build() is called again.
C8_TogglesInvisibleUntilBuild ==
    [][(Drawn /\ ~build) =>
          /\ gl_edges_' = gl_edges_
          /\ gl_vertices_' = gl_vertices_]_vars

\* C8 amended: after a build and a draw, a toggle or a draw leaves a
\* non-empty edge (vertex) cache as it is; an empty one is left empty by a
\* toggle and is filled by the next draw with one buffer per half-edge
\* (vertex) passing the filters then in effect.
C8_TogglesInvisibleOnFilledCache ==
    [][(Drawn /\ ~build) =>
          /\ \/ gl_edges_' = gl_edges_
             \/ /\ gl_edges_ = << >>
                /\ paintGL
                /\ Len(gl_edges_') = Cardinality(PassingEdges(this))
          /\ \/ gl_vertices_' = gl_vertices_
             \/ /\ gl_vertices_ = << >>
                /\ paintGL
                /\ Len(gl_vertices_') = Cardinality(PassingVertices(this))]_vars

\* primary-only is on and the edge cache, filled before the toggle, still
\* holds the buffers of secondary edges
C8_Witness ==
    /\ Drawn
    /\ primary_edges_only_
    /\ \E e \in 1..Len(vd_.edges) : ~is_primary(vd_, e)
    /\ Len(gl_edges_) = Len(vd_.edges)

\* C9: the draw that fills the edge cache gives it exactly one buffer per
\* half-edge passing the filters in effect, in container order (omitted iff
\* primary-only and secondary, or internal-only and EXTERNAL); the draw that
\* fills the vertex cache gives it one buffer per vertex, those colored
\* EXTERNAL left out while internal-only is on.
C9_CacheHoldsPassingItems ==
    [][(gl_segments_'.id_ # 0 /\ paintGL) =>
          /\ gl_edges_ = << >> =>
               /\ Len(gl_edges_') = Cardinality(PassingEdges(this))
               /\ \A k \in 1..Len(gl_edges_') :
                     gl_edges_'[k].data = edge_vbo(this, Kth(PassingEdges(this), k)).data
          /\ gl_vertices_ = << >> =>
               /\ Len(gl_vertices_') = Cardinality(PassingVertices(this))
               /\ \A k \in 1..Len(gl_vertices_') :
                     LET v == vd_.vertices[Kth(PassingVertices(this), k)]
                     IN gl_vertices_'[k].data.center
                          = GLPoint(Num(v.x - shift_.x), Num(v.y - shift_.y))]_vars

\* both filters on, and a cache filled under them: secondary edges and
\* EXTERNAL primary edges are left out, the other edges are in
C9_Witness ==
    /\ pc = "idle"
    /\ primary_edges_only_ /\ internal_edges_only_
    /\ gl_edges_ # << >>
    /\ Len(gl_edges_) = Cardinality(PassingEdges(this))
    /\ \E e \in 1..Len(vd_.edges) : ~is_primary(vd_, e)
    /\ \E e \in 1..Len(vd_.edges) :
          is_primary(vd_, e) /\ vd_.edges[e].color = EXTERNAL_COLOR
    /\ gl_vertices_ # << >>

\* every point handed to update_brect
SitePoints ==
    {point_data_[i] : i \in 1..Len(point_data_)}
        \cup {segment_data_[i].low : i \in 1..Len(segment_data_)}
        \cup {segment_data_[i].high : i \in 1..Len(segment_data_)}

\* C10: for every non-empty set of sites, after update_brect on every site
\* and construct_brect, the rectangle is a square strictly containing every
\* site.
C10_BrectSquareStrictlyContainsSites ==
    (brect_initialized_ /\ SitePoints # {}) =>
        /\ brect_.xh - brect_.xl = brect_.yh - brect_.yl
        /\ \A p \in SitePoints :
              /\ brect_.xl < p.x /\ p.x < brect_.xh
              /\ brect_.yl < p.y /\ p.y < brect_.yh


\* ----------------------------------------------------------------- C11
\* the bounding box of the sites before construct_brect: what update_brect
\* has accumulated over every site coordinate
SiteBox ==
    LET least(S) == CHOOSE a \in S : \A b \in S : a <= b
        most(S) == CHOOSE a \in S : \A b \in S : a >= b
        xs == {p.x : p \in SitePoints}
        ys == {p.y : p \in SitePoints}
    IN rect_type(least(xs), least(ys), most(xs), most(ys))

\* a quotient that is a number, and its order against an integer
IsFinite(q) == q[2] # 0
Below(q, k) == q[1] < k * Abs(q[2])
Above(q, k) == q[1] > k * Abs(q[2])
FinitePoint(p) == IsFinite(p.x) /\ IsFinite(p.y)
StrictlyOutside(p, r) ==
    \/ Below(p.x, r.xl) \/ Above(p.x, r.xh)
    \/ Below(p.y, r.yl) \/ Above(p.y, r.yh)

UnboundedEdges == {e \in 1..Len(vd_.edges) : ~is_finite(vd_, e)}

\* C11: clip_infinite_edge on any unbounded edge appends exactly two points,
\* both with finite coordinates (the divisor max(|direction.x|,
\* |direction.y|) is never zero) and both strictly outside the bounding box
\* the sites had before construct_brect.
C11_ClipBothOutsideSiteBox ==
    pc = "idle" =>
        \A e \in UnboundedEdges :
            LET clipped_edge == clip_infinite_edge(this, e)
            IN /\ Len(clipped_edge) = 2
               /\ \A i \in 1..2 :
                     /\ FinitePoint(clipped_edge[i])
                     /\ StrictlyOutside(clipped_edge[i], SiteBox)


\* ----------------------------------------------------------------- C12
\* color_exterior with its call stack observed.  A run is
\*   d         the diagram,
\*   passes    per half-edge, how many calls got past the already-colored test,
\*   depth     the deepest nesting of calls reached (the outermost call is 1),
\*   exhausted the nesting went beyond the number of half-edges plus one,
\*             where the run is given up (the stand-in for a stack that
\*             never unwinds).
Run(d) ==
    [d |-> d, passes |-> [e \in 1..Len(d.edges) |-> 0], depth |-> 0, exhausted |-> FALSE]

RECURSIVE color_exterior_run(_, _, _)
RECURSIVE color_ring_run(_, _, _, _)

color_exterior_run(r, edge, depth) ==
    IF r.exhausted THEN r
    ELSE IF depth > Len(r.d.edges) + 1 THEN [r EXCEPT !.exhausted = TRUE]
    ELSE LET r0 == [r EXCEPT !.depth = Max(@, depth)]
         IN IF r0.d.edges[edge].color = EXTERNAL_COLOR THEN r0
            ELSE LET r1 == [r0 EXCEPT !.passes[edge] = @ + 1,
                                      !.d = color_pair(r0.d, edge)]
                     v == vertex1(r1.d, edge)
                 IN IF v = NULL \/ ~is_primary(r1.d, edge) THEN r1
                    ELSE color_ring_run(
                           [r1 EXCEPT !.d.vertices[v].color = EXTERNAL_COLOR],
                           v, incident_edge(r1.d, v), depth)

\* the do-while of a call at nesting `depth`: its calls are one deeper
color_ring_run(r, v, e, depth) ==
    LET r1 == color_exterior_run(r, e, depth + 1)
        n == rot_next(r1.d, e)
    IN IF r1.exhausted \/ n = incident_edge(r1.d, v) THEN r1
       ELSE color_ring_run(r1, v, n, depth)

\* build()'s loop from position i, observed
RECURSIVE classify_run(_, _)
classify_run(r, i) ==
    IF i > Len(r.d.edges) THEN r
    ELSE classify_run(
           IF ~is_finite(r.d, i) THEN color_exterior_run(r, i, 1) ELSE r, i + 1)

\* build() stands before its loop, the diagram as construct_voronoi left it
Unclassified == pc = "color" /\ it = 1

\* C12: on every diagram (twin an involution, every ring closed), those with
\* cycles of primary edges included, the classification comes to an end: no
\* half-edge gets past the already-colored test more than once, and the
\* nesting of color_exterior calls never exceeds the number of half-edges.
\* The observed run leaves the diagram that color_exterior leaves.
C12_ColorExteriorTerminates ==
    Unclassified =>
        LET r == classify_run(Run(vd_), 1)
        IN /\ ~r.exhausted
           /\ \A e \in 1..Len(vd_.edges) : r.passes[e] <= 1
           /\ r.depth <= Len(vd_.edges)
           /\ r.d = classify_from(vd_, 1)

\* a diagram whose primary edges form a cycle, entered from an unbounded
\* edge: the calls nest five deep, and every edge of the cycle is colored
C12_Witness ==
    /\ Unclassified
    /\ \E e \in 1..Len(vd_.edges) : is_finite(vd_, e) /\ is_primary(vd_, e)
    /\ LET r == classify_run(Run(vd_), 1)
       IN /\ r.depth >= 5
          /\ \A e \in 1..Len(vd_.edges) :
                is_finite(vd_, e) => r.passes[e] + r.passes[twin(vd_, e)] = 1


\* ----------------------------------------------------------------- C13
\* the disk centre of the buffer prepare_vertices builds for vertex v
VertexCentre(v) ==
    point_vbo(this,
              deconvolve([x |-> vd_.vertices[v].x, y |-> vd_.vertices[v].y], shift_),
              vertex_radius).data.center

\* C13: edge buffers are in the frame of the vertex buffers (coordinate
\* minus shift_): the draw that fills the edge cache gives every finite
\* straight edge a buffer whose two positions are the disk centres of the
\* vertex buffers of its vertex0 and vertex1, whatever shift_ is.
C13_EdgesInVertexFrame ==
    [][(gl_segments_'.id_ # 0 /\ gl_edges_ = << >> /\ paintGL) =>
          \A k \in 1..Len(gl_edges_') :
             LET e == Kth(PassingEdges(this), k)
             IN (is_finite(vd_, e) /\ ~is_curved(vd_, e)) =>
                   /\ gl_edges_'[k].vertex_count_ = 2
                   /\ gl_edges_'[k].data[1] = VertexCentre(vertex0(vd_, e))
                   /\ gl_edges_'[k].data[2] = VertexCentre(vertex1(vd_, e))]_vars

\* both caches filled without a filter, under a shift that is not zero: the
\* buffer of a finite edge starts at the disk centre cached for its vertex0,
\* which is not the vertex's unshifted position
C13_Witness ==
    /\ pc = "idle"
    /\ shift_.x # 0 /\ shift_.y # 0
    /\ Len(gl_edges_) = Len(vd_.edges)
    /\ Len(gl_vertices_) = Len(vd_.vertices)
    /\ \E e \in 1..Len(vd_.edges) :
          /\ is_finite(vd_, e)
          /\ gl_edges_[e].data[1] = gl_vertices_[vertex0(vd_, e)].data.center
          /\ gl_edges_[e].data[2] = gl_vertices_[vertex1(vd_, e)].data.center
          /\ gl_edges_[e].data[1]
               # GLPoint(Num(vd_.vertices[vertex0(vd_, e)].x),
                         Num(vd_.vertices[vertex0(vd_, e)].y))

====
